---------------------------- MODULE Spec2Model ----------------------------
(***************************************************************************)
(* A model of Tools/F_scripts/write_cuda_headers.py: the scan of the C++   *)
(* sources for "#pragma gpu" call sites, the two passes over every header  *)
(* (preprocessed and original), the rewriting of a captured signature into *)
(* a __device__ declaration and a __global__ kernel, the rewriting of the  *)
(* call sites, and the grid-stride kernel of TEMPLATE.                     *)
(*                                                                         *)
(* Text is modelled character by character: a Python str is a sequence of  *)
(* one-character strings, and the str methods and regular expressions the  *)
(* script uses are operators on such sequences.  Indices are 1-based here  *)
(* (Python's are 0-based); "not found" is 0 (Python's -1).                 *)
(***************************************************************************)
EXTENDS Integers, Sequences, FiniteSets, TLC

\* ------------------------------------------------------------------------
\* Python str operations
\* ------------------------------------------------------------------------

Min(S) == CHOOSE x \in S : \A y \in S : x <= y

Uppers == <<"A","B","C","D","E","F","G","H","I","J","K","L","M",
            "N","O","P","Q","R","S","T","U","V","W","X","Y","Z">>
Lowers == <<"a","b","c","d","e","f","g","h","i","j","k","l","m",
            "n","o","p","q","r","s","t","u","v","w","x","y","z">>

LowerSet == {Lowers[i] : i \in 1..26}

LowerMap == [c \in {Uppers[i] : i \in 1..26} |->
                Lowers[CHOOSE i \in 1..26 : Uppers[i] = c]]

\* str.lower(), one character
LowerChar(c) == IF c \in DOMAIN LowerMap THEN LowerMap[c] ELSE c

\* str.lower()
Lower(s) == [i \in 1..Len(s) |-> LowerChar(s[i])]

\* the characters str.strip() and str.split() treat as whitespace
IsWs(c) == c \in {" ", "\n", "\t", "\r"}

\* s[i:] of Python for a 1-based i
From(s, i) == SubSeq(s, i, Len(s))

\* whether sub occurs in s at position i
MatchAt(s, sub, i) ==
    /\ i >= 1
    /\ i + Len(sub) - 1 <= Len(s)
    /\ \A j \in 1..Len(sub) : s[i + j - 1] = sub[j]

\* str.find(sub) searching from position from; 0 when absent
FindFrom(s, sub, from) ==
    LET C == {i \in from..(Len(s) - Len(sub) + 1) : MatchAt(s, sub, i)}
    IN  IF C = {} THEN 0 ELSE Min(C)

\* str.find(sub)
Find(s, sub) == FindFrom(s, sub, 1)

\* str.rfind(sub)
RFind(s, sub) ==
    LET C == {i \in 1..(Len(s) - Len(sub) + 1) : MatchAt(s, sub, i)}
    IN  IF C = {} THEN 0 ELSE CHOOSE x \in C : \A y \in C : y <= x

\* sub in s
Contains(s, sub) == Find(s, sub) # 0

\* str.startswith / str.endswith
StartsWith(s, pre) == MatchAt(s, pre, 1)
EndsWith(s, suf) == Len(suf) <= Len(s) /\ MatchAt(s, suf, Len(s) - Len(suf) + 1)

\* str.rstrip(), str.lstrip(), str.strip()
RECURSIVE RStrip(_)
RStrip(s) == IF s # <<>> /\ IsWs(s[Len(s)]) THEN RStrip(SubSeq(s, 1, Len(s) - 1)) ELSE s
RECURSIVE LStrip(_)
LStrip(s) == IF s # <<>> /\ IsWs(s[1]) THEN LStrip(Tail(s)) ELSE s
Strip(s) == LStrip(RStrip(s))

\* str.replace(old, new): every non-overlapping occurrence, left to right
RECURSIVE ReplaceFrom(_, _, _, _)
ReplaceFrom(s, old, new, from) ==
    LET i == FindFrom(s, old, from)
    IN  IF i = 0 THEN From(s, from)
        ELSE SubSeq(s, from, i - 1) \o new \o ReplaceFrom(s, old, new, i + Len(old))
RECURSIVE Intersperse(_, _)
Intersperse(s, new) ==
    IF s = <<>> THEN new ELSE new \o <<Head(s)>> \o Intersperse(Tail(s), new)
Replace(s, old, new) ==
    IF old = <<>> THEN Intersperse(s, new) ELSE ReplaceFrom(s, old, new, 1)

\* str.split(sep) for a one-character sep: always at least one piece
RECURSIVE Split(_, _)
Split(s, sep) ==
    LET i == Find(s, <<sep>>)
    IN  IF i = 0 THEN <<s>>
        ELSE <<SubSeq(s, 1, i - 1)>> \o Split(From(s, i + 1), sep)

\* str.split(): the maximal runs of non-whitespace
RECURSIVE SplitWs(_)
SplitWs(s0) ==
    LET s == LStrip(s0)
        E == {i \in 1..Len(s) : IsWs(s[i])}
        e == IF E = {} THEN Len(s) + 1 ELSE Min(E)
    IN  IF s = <<>> THEN <<>>
        ELSE <<SubSeq(s, 1, e - 1)>> \o SplitWs(From(s, e))

\* sep.join(parts)
RECURSIVE Join(_, _)
Join(parts, sep) ==
    IF parts = <<>> THEN <<>>
    ELSE IF Len(parts) = 1 THEN parts[1]
    ELSE parts[1] \o sep \o Join(Tail(parts), sep)

\* "".join(parts)
RECURSIVE Concat(_)
Concat(parts) == IF parts = <<>> THEN <<>> ELSE Head(parts) \o Concat(Tail(parts))

\* Python's s[a:b] for 0-based a, b (negative values count from the end)
PyIndex(s, i) == IF i < 0 THEN (IF Len(s) + i < 0 THEN 0 ELSE Len(s) + i)
                 ELSE (IF i > Len(s) THEN Len(s) ELSE i)
PySlice(s, a, b) == SubSeq(s, PyIndex(s, a) + 1, PyIndex(s, b))

\* ------------------------------------------------------------------------
\* String constants of the script
\* ------------------------------------------------------------------------

S_void == <<"v","o","i","d">>
S_lo == <<"l","o">>
S_hi == <<"h","i">>
S_blo == <<"b","l","o">>
S_bhi == <<"b","h","i">>
S_device_suffix == <<"_","d","e","v","i","c","e">>
S_device_qual == <<"_","_","d","e","v","i","c","e","_","_"," ">>
S_sig_end == <<";","\n","\n">>
S_star == <<"*">>
S_amp == <<"&">>
S_semi == <<";">>
S_comma_sp == <<","," ">>
S_lparen == <<"(">>
S_rparen == <<")">>
S_comment == <<"/","/">>
S_pragma == <<"#","p","r","a","g","m","a"," ","g","p","u">>
S_FAB_ARG == <<"B","L","_","F","O","R","T","_","F","A","B","_","A","R","G","_","3","D">>
S_IFAB_ARG == <<"B","L","_","F","O","R","T","_","I","F","A","B","_","A","R","G","_","3","D">>
S_FAB_VAL == <<"B","L","_","F","O","R","T","_","F","A","B","_","V","A","L","_","3","D">>
S_const_int == <<"c","o","n","s","t"," ","i","n","t"," ">>
S_const_int_ptr == <<"c","o","n","s","t"," ","i","n","t","*"," ">>
S_const_int_ptr_lo == <<"c","o","n","s","t"," ","i","n","t","*"," ","l","o">>
S_const_int_ptr_hi == <<"c","o","n","s","t"," ","i","n","t","*"," ","h","i">>
S_u1 == <<"_","1">>
S_u2 == <<"_","2">>
S_u3 == <<"_","3">>
S_int_sp == <<" "," "," ","i","n","t"," ">>
S_arr_open == <<"[","3","]"," ","="," ","{">>
S_arr_close == <<"}",";","\n">>
S_ANYD == <<"A","M","R","E","X","_","I","N","T","_","A","N","Y","D">>
S_cuda == <<"c","u","d","a","_">>

\* macro_list of __main__: the only tag the script looks for
macro_list == <<S_ANYD>>

\* ------------------------------------------------------------------------
\* The regular expressions
\* ------------------------------------------------------------------------

\* [a-z] and [a-z_] under re.IGNORECASE
IsAlpha(c) == LowerChar(c) \in LowerSet
IsAlphaUnder(c) == IsAlpha(c) \/ c = "_"

\* the end (exclusive) of the maximal run of characters satisfying the class
\* that starts at position i
RECURSIVE WsRunEnd(_, _)
WsRunEnd(s, i) == IF i <= Len(s) /\ IsWs(s[i]) THEN WsRunEnd(s, i + 1) ELSE i
RECURSIVE NameRunEnd(_, _)
NameRunEnd(s, i) == IF i <= Len(s) /\ IsAlphaUnder(s[i]) THEN NameRunEnd(s, i + 1) ELSE i

\* whether (void)(\s+)([a-z][a-z_]+) matches at position p.  \s+ is greedy and
\* a shorter run of whitespace never helps: the character after it must be a
\* letter.
BindingAt(s, p) ==
    LET q == WsRunEnd(s, p + 4)
    IN  /\ p + 3 <= Len(s)
        /\ \A j \in 1..4 : LowerChar(s[p + j - 1]) = S_void[j]
        /\ q > p + 4
        /\ q + 1 <= Len(s)
        /\ IsAlpha(s[q])
        /\ IsAlphaUnder(s[q + 1])

\* fortran_binding_re.search(s): group(3) of the leftmost match, <<>> (no
\* match) otherwise; a match's group(3) has at least two characters
fortran_binding_re(s) ==
    LET P == {p \in 1..Len(s) : BindingAt(s, p)}
        p == Min(P)
        q == WsRunEnd(s, p + 4)
    IN  IF P = {} THEN <<>> ELSE SubSeq(s, q, NameRunEnd(s, q) - 1)

\* decls_re.search(s), (.*?)(\()(.*)(\)) with re.DOTALL: group(1) is the text
\* before the first "(", group(3) the text between it and the last ")"
decls_re(s) ==
    LET i == Find(s, S_lparen)
        j == RFind(s, S_rparen)
    IN  IF i = 0 \/ j < i
        THEN [ok |-> FALSE, g1 |-> <<>>, g3 |-> <<>>]
        ELSE [ok |-> TRUE, g1 |-> SubSeq(s, 1, i - 1), g3 |-> SubSeq(s, i + 1, j - 1)]

\* text.split('(', 1)[1].rsplit(')', 1)[0].split(','), for a text with a "("
ArgList(text) ==
    LET a == From(text, Find(text, S_lparen) + 1)
        j == RFind(a, S_rparen)
        b == IF j = 0 THEN a ELSE SubSeq(a, 1, j - 1)
    IN  Split(b, ",")

\* ------------------------------------------------------------------------
\* convert_headers, lines 297-395: one captured signature to its
\* __device__ declaration and its kernel
\* ------------------------------------------------------------------------

\* "const int {}_1, const int {}_2, const int {}_3".format(var, var, var)
ThreeScalars(var) ==
    S_const_int \o var \o S_u1 \o S_comma_sp \o
    S_const_int \o var \o S_u2 \o S_comma_sp \o
    S_const_int \o var \o S_u3

\* "   int {}[3] = {{{}_1, {}_2, {}_3}};\n".format(intvect, ...)
IntvectDecl(var) ==
    S_int_sp \o var \o S_arr_open \o var \o S_u1 \o S_comma_sp \o
    var \o S_u2 \o S_comma_sp \o var \o S_u3 \o S_arr_close

\* Python's idx of line 306: func_sig.lower().find(name), 0-based, -1 if absent
NameIdx(func_sig, name) == Find(Lower(func_sig), name) - 1

\* case_name of line 309: func_sig[idx:idx+len(name)]
CaseName(func_sig, name) ==
    LET idx == NameIdx(func_sig, name)
    IN  PySlice(func_sig, idx, idx + Len(name))

\* device_sig of lines 304-313: the signature qualified with __device__ and
\* every occurrence of case_name followed by _device
DeviceSig(func_sig, name) ==
    LET case_name == CaseName(func_sig, name)
    IN  Replace(S_device_qual \o func_sig \o S_sig_end,
                case_name, case_name \o S_device_suffix)

\* var of lines 331-336: the last token of a parameter without "*" and "&",
\* the array macros replaced
StripSigils(tok) == Strip(Replace(Replace(tok, S_star, <<>>), S_amp, <<>>))
ParamVar(v) ==
    LET _tmp == SplitWs(v)
        var == StripSigils(_tmp[Len(_tmp)])
    IN  Replace(Replace(var, S_FAB_ARG, S_FAB_VAL), S_IFAB_ARG, S_FAB_VAL)

\* whether the tagged branch of line 345 is taken: arg_positions != []
TaggedBranch(arg_positions) == arg_positions # <<>>

\* the state of the loop of lines 327-374 before its first iteration
\* (launch_sig and arg_positions are signatures[name])
RewriteStart(name, launch_sig, arg_positions) ==
    [name |-> name, launch_sig |-> launch_sig, arg_positions |-> arg_positions,
     n |-> 0,
     func_sig |-> launch_sig,
     device_sig |-> DeviceSig(launch_sig, name),
     vars |-> <<>>, intvect_vars |-> <<>>,
     has_lo |-> FALSE, has_hi |-> FALSE,
     status |-> IF decls_re(launch_sig).ok THEN "loop" ELSE "crash"]

\* the parameters the loop enumerates: dd.group(3).split(",")
Params(launch_sig) == Split(decls_re(launch_sig).g3, ",")

\* one iteration of the loop of lines 327-374, for the 0-based n of the state
ParamStep(st) ==
    LET v == Params(st.launch_sig)[st.n + 1]
        args == ArgList(st.launch_sig)
        tagged == TaggedBranch(st.arg_positions) /\
                  \E i \in 1..Len(st.arg_positions) : st.arg_positions[i] = st.n
        arg == args[st.n + 1]
        atoks == SplitWs(arg)
        var0 == ParamVar(v)
        \* lines 348-356, the position is tagged
        var1 == IF tagged THEN atoks[Len(atoks)] ELSE var0
        legacy == ~TaggedBranch(st.arg_positions)
        func_sig ==
            IF tagged THEN Replace(st.func_sig, arg, ThreeScalars(var1))
            ELSE IF legacy /\ var0 = S_lo
                 THEN Replace(st.func_sig, S_const_int_ptr_lo, ThreeScalars(var0))
            ELSE IF legacy /\ var0 = S_hi
                 THEN Replace(st.func_sig, S_const_int_ptr_hi, ThreeScalars(var0))
            ELSE st.func_sig
        device_sig ==
            IF tagged THEN Replace(st.device_sig, arg, S_const_int_ptr \o var1)
            ELSE st.device_sig
        intvect_vars ==
            IF tagged \/ (legacy /\ var0 \in {S_lo, S_hi})
            THEN Append(st.intvect_vars, var1) ELSE st.intvect_vars
        \* lines 366-374
        var2 == IF var1 = S_lo THEN S_blo ELSE IF var1 = S_hi THEN S_bhi ELSE var1
    IN  IF SplitWs(v) = <<>>
        THEN [st EXCEPT !.status = "crash"]      \* _tmp[-1] of an empty list
        ELSE [st EXCEPT !.n = st.n + 1,
                        !.func_sig = func_sig,
                        !.device_sig = device_sig,
                        !.intvect_vars = intvect_vars,
                        !.has_lo = st.has_lo \/ var1 = S_lo,
                        !.has_hi = st.has_hi \/ var1 = S_hi,
                        !.vars = Append(st.vars, var2)]

\* whether the loop of line 327 has enumerated every parameter
LoopDone(st) == st.n >= Len(Params(st.launch_sig))

\* line 376: the signature lacks lo or hi, sys.exit
MissingBounds(st) == ~st.has_lo \/ ~st.has_hi

\* lines 376-394 after the loop: sys.exit, or the pair that is written
RewriteFinish(st) ==
    LET case_name == CaseName(st.launch_sig, st.name)
        idx == NameIdx(st.launch_sig, st.name)
    IN  IF MissingBounds(st)
        THEN [status |-> "exit", device_sig |-> <<>>, kernel_decl |-> <<>>,
              intvects |-> <<>>, new_call |-> <<>>]
        ELSE [status |-> "ok",
              device_sig |-> st.device_sig,
              \* func_sig[idx:].replace(';','')
              kernel_decl |-> Replace(PySlice(st.func_sig, idx, Len(st.func_sig)),
                                      S_semi, <<>>),
              intvects |-> Concat([i \in 1..Len(st.intvect_vars) |->
                                      IntvectDecl(st.intvect_vars[i])]),
              new_call |-> case_name \o S_device_suffix \o S_lparen \o
                           Join(st.vars, S_comma_sp) \o S_rparen]

\* the whole of lines 297-395 for one name
RECURSIVE RunLoop(_)
RunLoop(st) ==
    IF st.status # "loop" \/ LoopDone(st) THEN st ELSE RunLoop(ParamStep(st))

Rewrite(name, launch_sig, arg_positions) ==
    LET st == RunLoop(RewriteStart(name, launch_sig, arg_positions))
    IN  IF st.status = "crash"
        THEN [status |-> "crash", device_sig |-> <<>>, kernel_decl |-> <<>>,
              intvects |-> <<>>, new_call |-> <<>>]
        ELSE RewriteFinish(st)

\* ------------------------------------------------------------------------
\* State
\* ------------------------------------------------------------------------

VARIABLES
    rw,        \* the locals of the loop of lines 297-395 for one signature
    rw_out,    \* what that iteration ended with: the pair written, or sys.exit
    klo, khi,  \* the kernel's arrays lo[3] and hi[3]
    blockDim,  \* the launch shape: threads per block, x y z
    gridDim,   \* the launch shape: blocks per grid, x y z
    kran,      \* the threads of the launch that have run the kernel body
    kdiv,      \* those of them whose loops never end
    kcalls,    \* the invocations of the device function: arguments -> count
    pc,        \* where the script is
    cxx_files, \* the C++ sources: their names and lines
    header_files, \* the headers: name, original lines, preprocessed lines
    targets,   \* find_targets_from_pragmas: function name -> tagged positions
    fi,        \* the 1-based index of the file of the current loop
    pos,       \* the number of lines read from the file being scanned
    line,      \* the line last read, <<>> at the end of the file
    acc,       \* func_call or launch_sig while a statement is captured
    found,     \* the target of the signature being captured, <<>> for None
    signatures,        \* of the header: name -> signature and tagged positions
    signatures_needed, \* those of them found in the original header
    pending,   \* the names the loop of line 297 has yet to write
    outfiles   \* the files written: name -> what was written, and closed

rwVars == <<rw, rw_out>>
kVars == <<klo, khi, blockDim, gridDim, kran, kdiv, kcalls>>
pVars == <<pc, cxx_files, header_files, targets, fi, pos, line, acc, found,
           signatures, signatures_needed, pending, outfiles>>
vars == <<rw, rw_out, klo, khi, blockDim, gridDim, kran, kdiv, kcalls,
          pc, cxx_files, header_files, targets, fi, pos, line, acc, found,
          signatures, signatures_needed, pending, outfiles>>

\* ------------------------------------------------------------------------
\* Inputs: signatures and tag positions
\* ------------------------------------------------------------------------

\* the longest parameter list of an enumerated signature
MaxParams == 4

P_lo == <<"c","o","n","s","t"," ","i","n","t","*"," ","l","o">>
P_hi == <<"c","o","n","s","t"," ","i","n","t","*"," ","h","i">>
P_hi_attached == <<"c","o","n","s","t"," ","i","n","t"," ","*","h","i">>
P_dx == <<"c","o","n","s","t"," ","i","n","t","*"," ","d","x">>
P_dx_foo == <<"c","o","n","s","t"," ","i","n","t","*"," ","d","x","_","f","o","o">>
P_fab == <<"B","L","_","F","O","R","T","_","F","A","B","_","A","R","G","_","3","D","(","s",")">>
N_foo == <<"f","o","o">>
N_Foo == <<"F","o","o">>
S_void_sp == <<"v","o","i","d"," ">>
S_decl_end == <<")",";","\n">>

\* the parameters signatures are built from
ParamPool == <<P_lo, P_hi, P_hi_attached, P_dx, P_dx_foo, P_fab>>

\* the spellings of the declared name
DeclNames == {N_foo, N_Foo}

\* a one-line declaration "void <name>(<p1>, <p2>, ...);\n"
MakeDecl(name, plist) ==
    S_void_sp \o name \o S_lparen \o Join(plist, S_comma_sp) \o S_decl_end

\* parameter lists: up to MaxParams different parameters of the pool
ParamLists ==
    UNION {{[i \in 1..n |-> ParamPool[f[i]]] :
              f \in {g \in [1..n -> 1..Len(ParamPool)] :
                       \A a, b \in 1..n : a # b => g[a] # g[b]}} : n \in 0..MaxParams}

\* a set of 0-based positions as the ascending list find_targets_from_pragmas
\* builds
RECURSIVE SortedSeq(_)
SortedSeq(S) == IF S = {} THEN <<>> ELSE <<Min(S)>> \o SortedSeq(S \ {Min(S)})
TagTables == {SortedSeq(S) : S \in SUBSET (0..(MaxParams - 1))}

\* ------------------------------------------------------------------------
\* The rewriting of one signature, step by step
\* ------------------------------------------------------------------------

NoPair == [status |-> "none", device_sig |-> <<>>, kernel_decl |-> <<>>,
           intvects |-> <<>>, new_call |-> <<>>]

\* no kernel is launched
KernelIdle ==
    /\ klo = <<0, 0, 0>> /\ khi = <<0, 0, 0>>
    /\ blockDim = <<1, 1, 1>> /\ gridDim = <<1, 1, 1>>
    /\ kran = {} /\ kdiv = {} /\ kcalls = <<>>

\* an empty dict
EmptyDict == [k \in {} |-> <<>>]

\* the script is not run
PipelineIdle ==
    /\ pc = "idle" /\ cxx_files = <<>> /\ header_files = <<>>
    /\ targets = EmptyDict /\ fi = 0 /\ pos = 0 /\ line = <<>> /\ acc = <<>>
    /\ found = <<>> /\ signatures = EmptyDict /\ signatures_needed = EmptyDict
    /\ pending = {} /\ outfiles = EmptyDict

\* no signature is being rewritten
RewriteIdle ==
    /\ rw = [status |-> "idle"]
    /\ rw_out = NoPair

InitRewrite ==
    /\ \E name \in DeclNames, plist \in ParamLists, tags \in TagTables :
          rw = RewriteStart(Lower(name), MakeDecl(name, plist), tags)
    /\ rw_out = NoPair
    /\ KernelIdle
    /\ PipelineIdle

\* one iteration of the loop of line 327
RwParam ==
    /\ rw.status = "loop"
    /\ ~LoopDone(rw)
    /\ rw' = ParamStep(rw)
    /\ UNCHANGED <<rw_out, kVars, pVars>>

\* lines 376-395: sys.exit, or the pair is written
RwFinish ==
    /\ rw.status = "loop"
    /\ LoopDone(rw)
    /\ rw_out' = RewriteFinish(rw)
    /\ rw' = [rw EXCEPT !.status = "done"]
    /\ UNCHANGED <<kVars, pVars>>

NextRewrite == RwParam \/ RwFinish

SpecRewrite == InitRewrite /\ [][NextRewrite]_vars

\* ------------------------------------------------------------------------
\* The script: find_targets_from_pragmas, convert_headers, convert_cxx
\* ------------------------------------------------------------------------

\* d[k] = v
Put(d, k, v) == [x \in (DOMAIN d) \cup {k} |-> IF x = k THEN v ELSE d[x]]

\* hin.readline() after p lines were read: the next line, "" at the end
ReadLine(file, p) == IF p < Len(file) THEN file[p + 1] ELSE <<>>
NextPos(file, p) == IF p < Len(file) THEN p + 1 ELSE p

\* line.strip().endswith(";")
EndsStatement(l) == EndsWith(Strip(l), S_semi)

\* func_call of lines 111-117 and 444-450 once its last line is read:
\* the lines before it, and the last line without trailing space and ";"
FuncCall(lines_before, last) == lines_before \o PySlice(RStrip(last), 0, 0 - 1)

\* func_name of lines 122 and 456
FuncName(func_call) == Replace(Strip(decls_re(func_call).g1), <<" ">>, <<>>)

\* lines 126-132: for every macro, the 0-based positions of the arguments
\* that contain it, ascending
RECURSIVE PositionsFrom(_, _, _)
PositionsFrom(args, macro, i) ==
    IF i > Len(args) THEN <<>>
    ELSE (IF Contains(args[i], macro) THEN <<i - 1>> ELSE <<>>)
         \o PositionsFrom(args, macro, i + 1)
TargetEntry(func_call) ==
    LET whole == SubSeq(func_call, 1, RFind(func_call, S_rparen))   \* dd.group()
        args == ArgList(Strip(whole))
    IN  [j \in 1..Len(macro_list) |-> PositionsFrom(args, macro_list[j], 1)]

\* lines 180-192 and 240-257: the key of names that the line declares, <<>>
\* (None) if there is none.  The comment is cut off with line[:idx], idx
\* being -1 for a line without "//".
HeaderFound(l, names) ==
    LET idx == Find(l, S_comment) - 1
        tline == PySlice(l, 0, idx)
        g3 == fortran_binding_re(Lower(tline))
    IN  IF g3 # <<>> /\ g3 \in names THEN g3 ELSE <<>>

\* line 278 without the restriction to the names of the original header
NamesToEmit_All(needed, sigs) == DOMAIN sigs

\* line 278: the names whose pairs are written, list(set(signatures_needed))
NamesToEmit(needed, sigs) == DOMAIN needed

\* what is written to a file, piece by piece
Chunk(kind, text, body, call) ==
    [kind |-> kind, text |-> text, body |-> body, call |-> call]
\* hout.write(line) of lines 270 and 471
LineChunk(l) == Chunk("line", l, <<>>, <<>>)
\* lines 281-295: the includes, the include guard, #ifdef and extern "C"
PreambleChunk == Chunk("preamble", <<>>, <<>>, <<>>)
\* lines 393-395: the device declaration, the kernel of TEMPLATE, "\n"
PairChunks(r) ==
    << Chunk("device", r.device_sig, <<>>, <<>>),
       Chunk("kernel", S_cuda \o r.kernel_decl, r.intvects, r.new_call),
       Chunk("sep", <<"\n">>, <<>>, <<>>) >>
\* lines 399-404: the end of extern "C", of #ifdef and of the include guard
CloseChunk == Chunk("close", <<>>, <<>>, <<>>)
\* lines 461-467: the launch of cuda_<func_name> with the arguments as written
LaunchChunk(func_name, args) == Chunk("launch", S_cuda \o func_name, <<>>, args)

\* open(ofile, "w"), and hout.write
Created(files, name) == Put(files, name, [chunks |-> <<>>, closed |-> FALSE])
Written(files, name, chunks) ==
    [files EXCEPT ![name].chunks = @ \o chunks]
Closed(files, name) == [files EXCEPT ![name].closed = TRUE]

\* ---- the files the script is run on ----

\* lines of headers and of C++ files
\* void foo(const int* lo, const int* hi);\n
L_decl_foo ==
    <<"v","o","i","d"," ","f","o","o","(","c","o","n","s","t"," ","i","n","t","*"," ","l","o",","," ","c","o","n","s","t"," ","i","n","t","*"," ","h","i",")",";","\n">>
\* void Foo(const int* lo,\n
L_decl_Foo_a ==
    <<"v","o","i","d"," ","F","o","o","(","c","o","n","s","t"," ","i","n","t","*"," ","l","o",",","\n">>
\*          const int* hi);\n
L_decl_Foo_b ==
    <<" "," "," "," "," "," "," "," "," ","c","o","n","s","t"," ","i","n","t","*"," ","h","i",")",";","\n">>
\* #include <AMReX_REAL.H>\n
L_include ==
    <<"#","i","n","c","l","u","d","e"," ","<","A","M","R","e","X","_","R","E","A","L",".","H",">","\n">>
\* void bar(const int* lo);\n
L_decl_bar ==
    <<"v","o","i","d"," ","b","a","r","(","c","o","n","s","t"," ","i","n","t","*"," ","l","o",")",";","\n">>
\* void bar(const int* lo); // no hi\n
L_decl_bar_c ==
    <<"v","o","i","d"," ","b","a","r","(","c","o","n","s","t"," ","i","n","t","*"," ","l","o",")",";"," ","/","/"," ","n","o"," ","h","i","\n">>
\* void foo2(const int* lo, const int* hi);\n
L_decl_foo2 ==
    <<"v","o","i","d"," ","f","o","o","2","(","c","o","n","s","t"," ","i","n","t","*"," ","l","o",","," ","c","o","n","s","t"," ","i","n","t","*"," ","h","i",")",";","\n">>
\* #pragma gpu\n
L_pragma ==
    <<"#","p","r","a","g","m","a"," ","g","p","u","\n">>
\* foo(AMREX_INT_ANYD(lo), AMREX_INT_ANYD(hi));\n
L_call_foo_anyd ==
    <<"f","o","o","(","A","M","R","E","X","_","I","N","T","_","A","N","Y","D","(","l","o",")",","," ","A","M","R","E","X","_","I","N","T","_","A","N","Y","D","(","h","i",")",")",";","\n">>
\* foo(lo, hi);\n
L_call_foo ==
    <<"f","o","o","(","l","o",","," ","h","i",")",";","\n">>
\* Foo(lo, hi);\n
L_call_Foo ==
    <<"F","o","o","(","l","o",","," ","h","i",")",";","\n">>
\* bar\n
L_call_bar_a ==
    <<"b","a","r","\n">>
\*   (lo);\n
L_call_bar_b ==
    <<" "," ","(","l","o",")",";","\n">>
\* int n = 0;\n
L_stmt ==
    <<"i","n","t"," ","n"," ","="," ","0",";","\n">>
\* foo(lo, hi)\n
L_call_open ==
    <<"f","o","o","(","l","o",","," ","h","i",")","\n">>
\* n;\n
L_not_a_call ==
    <<"n",";","\n">>

\* the longest header of HeaderTexts
MaxLines == 3

\* the lines headers are built from
LinePool == {L_decl_foo, L_decl_Foo_a, L_decl_Foo_b, L_include, L_decl_bar,
             L_decl_foo2}

\* every header text of up to MaxLines lines
HeaderTexts == UNION {[1..n -> LinePool] : n \in 0..MaxLines}

\* what the preprocessor puts in front of a header's own lines: nothing, or
\* a declaration that an #include brings in
Included == {<<>>, <<L_decl_foo>>}

\* a header h (h.name) and its preprocessed form (h.cpp_name), by their lines
HeaderFile(name, orig, cpp) == [name |-> name, orig |-> orig, cpp |-> cpp]
\* a C++ file
CxxFile(name, lines) == [name |-> name, lines |-> lines]

X_two == CxxFile("main.cpp", <<L_pragma, L_call_foo, L_stmt,
                               L_pragma, L_call_bar_a, L_call_bar_b>>)
X_anyd == CxxFile("anyd.cpp", <<L_stmt, L_pragma, L_call_foo_anyd>>)
X_upper == CxxFile("upper.cpp", <<L_pragma, L_call_Foo>>)
X_plain == CxxFile("plain.cpp", <<L_stmt>>)
X_open == CxxFile("open.cpp", <<L_pragma, L_call_open>>)
X_bad == CxxFile("bad.cpp", <<L_pragma, L_not_a_call>>)

H_foo == HeaderFile("A_F.H", <<L_include, L_decl_foo>>, <<L_include, L_decl_foo>>)
H_Foo == HeaderFile("B_F.H", <<L_decl_Foo_a, L_decl_Foo_b, L_include>>,
                             <<L_decl_Foo_a, L_decl_Foo_b, L_include>>)
H_bar == HeaderFile("C_F.H", <<L_include, L_decl_bar>>, <<L_include, L_decl_bar>>)
H_foo2 == HeaderFile("D_F.H", <<L_decl_foo2, L_include>>, <<L_decl_foo2, L_include>>)
\* a comment follows the declaration
H_bar_c == HeaderFile("F_F.H", <<L_decl_bar_c, L_decl_foo>>, <<L_decl_bar_c, L_decl_foo>>)
\* foo is declared twice in the header, and once more in what it includes
H_dup == HeaderFile("E_F.H",
                    <<L_decl_Foo_a, L_decl_Foo_b, L_decl_foo, L_decl_foo>>,
                    <<L_decl_foo, L_decl_Foo_a, L_decl_Foo_b, L_decl_foo, L_decl_foo>>)

Run(cxx, headers) == [cxx |-> cxx, headers |-> headers]

\* one header of every text, with two marked calls in one C++ file
RunsOneHeader ==
    {Run(<<X_two>>, <<HeaderFile("A_F.H", orig, inc \o orig)>>) :
        orig \in HeaderTexts, inc \in Included}

\* several headers and several C++ files
RunsSeveral ==
    {Run(cxx, headers) :
        cxx \in {<<X_anyd>>, <<X_upper>>, <<X_plain>>, <<X_open>>, <<X_bad>>,
                 <<X_anyd, X_two>>, <<>>},
        headers \in {<<>>, <<H_foo>>, <<H_Foo>>, <<H_foo2>>, <<H_foo, H_bar>>,
                     <<H_bar, H_foo>>, <<H_Foo, H_foo>>, <<H_dup>>, <<H_bar_c>>}}

Runs == RunsOneHeader \cup RunsSeveral


\* ---- find_targets_from_pragmas (lines 84-136) ----

CxxLines == cxx_files[fi].lines

\* line 96 and 102: the next C++ file is opened and its first line read
FtOpen ==
    /\ pc = "ft_open"
    /\ fi <= Len(cxx_files)
    /\ pc' = "ft_line"
    /\ line' = ReadLine(CxxLines, 0)
    /\ pos' = NextPos(CxxLines, 0)
    /\ UNCHANGED <<cxx_files, header_files, targets, fi, acc, found, signatures,
                   signatures_needed, pending, outfiles, rwVars, kVars>>

\* lines 97-98: it cannot be opened
FtOpenFail ==
    /\ pc = "ft_open"
    /\ fi <= Len(cxx_files)
    /\ pc' = "exit"
    /\ UNCHANGED <<cxx_files, header_files, targets, fi, pos, line, acc, found,
                   signatures, signatures_needed, pending, outfiles, rwVars, kVars>>

\* line 136, and lines 151-159 of convert_headers: the targets are returned
\* and the headers preprocessed
FtReturn ==
    /\ pc = "ft_open"
    /\ fi > Len(cxx_files)
    /\ pc' = "h_open_cpp"
    /\ fi' = 1
    /\ UNCHANGED <<cxx_files, header_files, targets, pos, line, acc, found,
                   signatures, signatures_needed, pending, outfiles, rwVars, kVars>>

\* one iteration of the loop of line 103 up to the inner loop
FtLine ==
    /\ pc = "ft_line"
    /\ IF line = <<>>
       THEN /\ pc' = "ft_open"
            /\ fi' = fi + 1
            /\ UNCHANGED <<pos, line, acc>>
       ELSE IF StartsWith(line, S_pragma)
       THEN /\ pc' = "ft_acc"
            /\ acc' = <<>>
            /\ line' = ReadLine(CxxLines, pos)
            /\ pos' = NextPos(CxxLines, pos)
            /\ fi' = fi
       ELSE /\ line' = ReadLine(CxxLines, pos)
            /\ pos' = NextPos(CxxLines, pos)
            /\ UNCHANGED <<pc, fi, acc>>
    /\ UNCHANGED <<cxx_files, header_files, targets, found, signatures,
                   signatures_needed, pending, outfiles, rwVars, kVars>>

\* one iteration of the loop of line 113, or lines 117-134 once it ends
FtAcc ==
    /\ pc = "ft_acc"
    /\ IF ~EndsStatement(line)
       THEN /\ acc' = acc \o line
            /\ line' = ReadLine(CxxLines, pos)
            /\ pos' = NextPos(CxxLines, pos)
            /\ UNCHANGED <<pc, targets>>
       ELSE LET func_call == FuncCall(acc, line)
            IN  IF ~decls_re(func_call).ok
                THEN /\ pc' = "crash"        \* dd is None
                     /\ UNCHANGED <<acc, line, pos, targets>>
                ELSE /\ targets' = Put(targets, FuncName(func_call),
                                       TargetEntry(func_call))
                     /\ acc' = func_call
                     /\ line' = ReadLine(CxxLines, pos)
                     /\ pos' = NextPos(CxxLines, pos)
                     /\ pc' = "ft_line"
    /\ UNCHANGED <<cxx_files, header_files, fi, found, signatures,
                   signatures_needed, pending, outfiles, rwVars, kVars>>

\* ---- convert_headers (lines 139-407) ----

Header == header_files[fi]

\* lines 167-174: the preprocessed header is opened
HCppOpen ==
    /\ pc = "h_open_cpp"
    /\ fi <= Len(header_files)
    /\ pc' = "h_cpp_line"
    /\ signatures' = EmptyDict
    /\ line' = ReadLine(Header.cpp, 0)
    /\ pos' = NextPos(Header.cpp, 0)
    /\ UNCHANGED <<cxx_files, header_files, targets, fi, acc, found,
                   signatures_needed, pending, outfiles, rwVars, kVars>>

\* lines 168-169: it cannot be opened
HCppOpenFail ==
    /\ pc = "h_open_cpp"
    /\ fi <= Len(header_files)
    /\ pc' = "exit"
    /\ UNCHANGED <<cxx_files, header_files, targets, fi, pos, line, acc, found,
                   signatures, signatures_needed, pending, outfiles, rwVars, kVars>>

\* the loop of line 163 is over: convert_headers returns
HReturn ==
    /\ pc = "h_open_cpp"
    /\ fi > Len(header_files)
    /\ pc' = "cx_open_in"
    /\ fi' = 1
    /\ UNCHANGED <<cxx_files, header_files, targets, pos, line, acc, found,
                   signatures, signatures_needed, pending, outfiles, rwVars, kVars>>

\* one iteration of the loop of line 175 up to the inner loop
HCppLine ==
    /\ pc = "h_cpp_line"
    /\ IF line = <<>>
       THEN /\ pc' = "h_open_out"            \* line 208
            /\ UNCHANGED <<pos, line, acc, found>>
       ELSE IF HeaderFound(line, DOMAIN targets) # <<>>
       THEN /\ pc' = "h_cpp_acc"
            /\ found' = HeaderFound(line, DOMAIN targets)
            /\ acc' = <<>>
            /\ UNCHANGED <<pos, line>>
       ELSE /\ line' = ReadLine(Header.cpp, pos)
            /\ pos' = NextPos(Header.cpp, pos)
            /\ found' = <<>>
            /\ UNCHANGED <<pc, acc>>
    /\ UNCHANGED <<cxx_files, header_files, targets, fi, signatures,
                   signatures_needed, pending, outfiles, rwVars, kVars>>

\* one iteration of the loop of line 199, or lines 202-206 once it ends
HCppAcc ==
    /\ pc = "h_cpp_acc"
    /\ IF ~EndsStatement(line)
       THEN /\ acc' = acc \o line
            /\ UNCHANGED <<pc, signatures>>
       ELSE /\ acc' = acc \o line
            /\ signatures' = Put(signatures, found,
                                 [launch_sig |-> acc \o line, tags |-> targets[found]])
            /\ pc' = "h_cpp_line"
    /\ line' = ReadLine(Header.cpp, pos)
    /\ pos' = NextPos(Header.cpp, pos)
    /\ UNCHANGED <<cxx_files, header_files, targets, fi, found,
                   signatures_needed, pending, outfiles, rwVars, kVars>>

\* line 223: the output header is created
HOutOpen ==
    /\ pc = "h_open_out"
    /\ pc' = "h_open_in"
    /\ outfiles' = Created(outfiles, Header.name)
    /\ UNCHANGED <<cxx_files, header_files, targets, fi, pos, line, acc, found,
                   signatures, signatures_needed, pending, rwVars, kVars>>

\* lines 224-225: it cannot be created
HOutOpenFail ==
    /\ pc = "h_open_out"
    /\ pc' = "exit"
    /\ UNCHANGED <<cxx_files, header_files, targets, fi, pos, line, acc, found,
                   signatures, signatures_needed, pending, outfiles, rwVars, kVars>>

\* lines 229-235: the original header is opened
HInOpen ==
    /\ pc = "h_open_in"
    /\ pc' = "h_orig_line"
    /\ signatures_needed' = EmptyDict
    /\ line' = ReadLine(Header.orig, 0)
    /\ pos' = NextPos(Header.orig, 0)
    /\ UNCHANGED <<cxx_files, header_files, targets, fi, acc, found,
                   signatures, pending, outfiles, rwVars, kVars>>

\* lines 230-231: it cannot be opened
HInOpenFail ==
    /\ pc = "h_open_in"
    /\ pc' = "exit"
    /\ UNCHANGED <<cxx_files, header_files, targets, fi, pos, line, acc, found,
                   signatures, signatures_needed, pending, outfiles, rwVars, kVars>>

\* one iteration of the loop of line 236 up to the inner loop; at the end of
\* the file, lines 278-295
HOrigLine ==
    /\ pc = "h_orig_line"
    /\ IF line = <<>>
       THEN /\ pc' = "h_emit"
            /\ pending' = NamesToEmit(signatures_needed, signatures)
            /\ outfiles' = Written(outfiles, Header.name, <<PreambleChunk>>)
            /\ UNCHANGED <<pos, line, acc, found, signatures_needed>>
       ELSE IF HeaderFound(line, DOMAIN signatures) # <<>>
       THEN /\ pc' = "h_orig_acc"
            /\ found' = HeaderFound(line, DOMAIN signatures)
            /\ signatures_needed' =
                  Put(signatures_needed, HeaderFound(line, DOMAIN signatures),
                      signatures[HeaderFound(line, DOMAIN signatures)])
            /\ acc' = line
            /\ UNCHANGED <<pos, line, pending, outfiles>>
       ELSE /\ outfiles' = Written(outfiles, Header.name, <<LineChunk(line)>>)
            /\ line' = ReadLine(Header.orig, pos)
            /\ pos' = NextPos(Header.orig, pos)
            /\ found' = <<>>
            /\ UNCHANGED <<pc, acc, pending, signatures_needed>>
    /\ UNCHANGED <<cxx_files, header_files, targets, fi, signatures, rwVars, kVars>>

\* one iteration of the loop of line 262: the next line is read and added
\* before it is tested; once the loop ends, line 272
HOrigAcc ==
    /\ pc = "h_orig_acc"
    /\ LET l == ReadLine(Header.orig, pos)
           p == NextPos(Header.orig, pos)
       IN  /\ acc' = acc \o l
           /\ IF EndsStatement(l)
              THEN /\ pc' = "h_orig_line"
                   /\ line' = ReadLine(Header.orig, p)
                   /\ pos' = NextPos(Header.orig, p)
              ELSE /\ pc' = pc
                   /\ line' = l
                   /\ pos' = p
    /\ UNCHANGED <<cxx_files, header_files, targets, fi, found, signatures,
                   signatures_needed, pending, outfiles, rwVars, kVars>>

\* one iteration of the loop of line 297, the names in any order
HEmit ==
    /\ pc = "h_emit"
    /\ \E name \in pending :
         LET r == Rewrite(name, signatures[name].launch_sig, signatures[name].tags[1])
         IN  IF r.status = "ok"
             THEN /\ outfiles' = Written(outfiles, Header.name, PairChunks(r))
                  /\ pending' = pending \ {name}
                  /\ pc' = pc
             ELSE /\ pc' = r.status           \* sys.exit of line 377, or a crash
                  /\ UNCHANGED <<pending, outfiles>>
    /\ UNCHANGED <<cxx_files, header_files, targets, fi, pos, line, acc, found,
                   signatures, signatures_needed, rwVars, kVars>>

\* lines 399-407: the header is closed, and the next one is taken
HClose ==
    /\ pc = "h_emit"
    /\ pending = {}
    /\ outfiles' = Closed(Written(outfiles, Header.name, <<CloseChunk>>), Header.name)
    /\ fi' = fi + 1
    /\ pc' = "h_open_cpp"
    /\ UNCHANGED <<cxx_files, header_files, targets, pos, line, acc, found,
                   signatures, signatures_needed, pending, rwVars, kVars>>

\* ---- convert_cxx (lines 410-473) ----

\* line 421: the next C++ file is opened
CxInOpen ==
    /\ pc = "cx_open_in"
    /\ fi <= Len(cxx_files)
    /\ pc' = "cx_open_out"
    /\ UNCHANGED <<cxx_files, header_files, targets, fi, pos, line, acc, found,
                   signatures, signatures_needed, pending, outfiles, rwVars, kVars>>

\* lines 422-423: it cannot be opened
CxInOpenFail ==
    /\ pc = "cx_open_in"
    /\ fi <= Len(cxx_files)
    /\ pc' = "exit"
    /\ UNCHANGED <<cxx_files, header_files, targets, fi, pos, line, acc, found,
                   signatures, signatures_needed, pending, outfiles, rwVars, kVars>>

\* the loop of line 416 is over: convert_cxx returns, which drops hout and so
\* closes the last output file, and the script ends
CxReturn ==
    /\ pc = "cx_open_in"
    /\ fi > Len(cxx_files)
    /\ pc' = "done"
    /\ outfiles' = IF cxx_files # <<>>
                   THEN Closed(outfiles, cxx_files[Len(cxx_files)].name)
                   ELSE outfiles
    /\ UNCHANGED <<cxx_files, header_files, targets, fi, pos, line, acc, found,
                   signatures, signatures_needed, pending, rwVars, kVars>>

\* lines 429-435: the output file is created and the first line read;
\* binding hout anew closes the output file of the C++ file before
CxOutOpen ==
    /\ pc = "cx_open_out"
    /\ pc' = "cx_line"
    /\ outfiles' = Created(IF fi > 1 THEN Closed(outfiles, cxx_files[fi - 1].name)
                                     ELSE outfiles,
                           cxx_files[fi].name)
    /\ line' = ReadLine(CxxLines, 0)
    /\ pos' = NextPos(CxxLines, 0)
    /\ UNCHANGED <<cxx_files, header_files, targets, fi, acc, found,
                   signatures, signatures_needed, pending, rwVars, kVars>>

\* lines 430-431: it cannot be created
CxOutOpenFail ==
    /\ pc = "cx_open_out"
    /\ pc' = "exit"
    /\ UNCHANGED <<cxx_files, header_files, targets, fi, pos, line, acc, found,
                   signatures, signatures_needed, pending, outfiles, rwVars, kVars>>

\* one iteration of the loop of line 436 up to the inner loop
CxLine ==
    /\ pc = "cx_line"
    /\ IF line = <<>>
       THEN /\ pc' = "cx_open_in"
            /\ fi' = fi + 1
            /\ UNCHANGED <<pos, line, acc, outfiles>>
       ELSE IF StartsWith(line, S_pragma)
       THEN /\ pc' = "cx_acc"
            /\ acc' = <<>>
            /\ line' = ReadLine(CxxLines, pos)
            /\ pos' = NextPos(CxxLines, pos)
            /\ UNCHANGED <<fi, outfiles>>
       ELSE /\ outfiles' = Written(outfiles, cxx_files[fi].name, <<LineChunk(line)>>)
            /\ line' = ReadLine(CxxLines, pos)
            /\ pos' = NextPos(CxxLines, pos)
            /\ UNCHANGED <<pc, fi, acc>>
    /\ UNCHANGED <<cxx_files, header_files, targets, found, signatures,
                   signatures_needed, pending, rwVars, kVars>>

\* one iteration of the loop of line 446, or lines 450-473 once it ends
CxAcc ==
    /\ pc = "cx_acc"
    /\ IF ~EndsStatement(line)
       THEN /\ acc' = acc \o line
            /\ line' = ReadLine(CxxLines, pos)
            /\ pos' = NextPos(CxxLines, pos)
            /\ UNCHANGED <<pc, outfiles>>
       ELSE LET func_call == FuncCall(acc, line)
            IN  IF ~decls_re(func_call).ok
                THEN /\ pc' = "crash"        \* dd is None
                     /\ UNCHANGED <<acc, line, pos, outfiles>>
                ELSE /\ outfiles' = Written(outfiles, cxx_files[fi].name,
                            <<LaunchChunk(FuncName(func_call), decls_re(func_call).g3)>>)
                     /\ acc' = func_call
                     /\ line' = ReadLine(CxxLines, pos)
                     /\ pos' = NextPos(CxxLines, pos)
                     /\ pc' = "cx_line"
    /\ UNCHANGED <<cxx_files, header_files, targets, fi, found, signatures,
                   signatures_needed, pending, rwVars, kVars>>

Next ==
    \/ FtOpen \/ FtOpenFail \/ FtReturn \/ FtLine \/ FtAcc
    \/ HCppOpen \/ HCppOpenFail \/ HReturn \/ HCppLine \/ HCppAcc
    \/ HOutOpen \/ HOutOpenFail \/ HInOpen \/ HInOpenFail
    \/ HOrigLine \/ HOrigAcc \/ HEmit \/ HClose
    \/ CxInOpen \/ CxInOpenFail \/ CxReturn \/ CxOutOpen \/ CxOutOpenFail
    \/ CxLine \/ CxAcc

\* the script is started on its arguments (lines 476-541)
Init ==
    /\ \E run \in Runs :
          /\ cxx_files = run.cxx
          /\ header_files = run.headers
    /\ pc = "ft_open"
    /\ fi = 1
    /\ pos = 0
    /\ line = <<>>
    /\ acc = <<>>
    /\ found = <<>>
    /\ targets = EmptyDict
    /\ signatures = EmptyDict
    /\ signatures_needed = EmptyDict
    /\ pending = {}
    /\ outfiles = EmptyDict
    /\ RewriteIdle
    /\ KernelIdle

Spec == Init /\ [][Next]_vars


\* ------------------------------------------------------------------------
\* The kernel of TEMPLATE (lines 38-58) on a launch of gridDim x blockDim
\* threads.  int has IntBits bits; blockIdx, blockDim, threadIdx and gridDim
\* are unsigned, so the index arithmetic is unsigned arithmetic converted
\* back to int: it wraps around.
\* ------------------------------------------------------------------------

\* the width of int
IntBits == 4
\* the most threads of an enumerated launch
MaxThreads == 4
\* the count that stands for "more than once" in kcalls
Many == 2

TwoToW == 2 ^ IntBits
MaxInt == 2 ^ (IntBits - 1) - 1
MinInt == 0 - 2 ^ (IntBits - 1)

\* the conversion of an unsigned result to int
ToInt(x) == LET m == x % TwoToW IN IF m > MaxInt THEN m - TwoToW ELSE m

\* the values a loop "for (int k = start; k <= hi; k += stride)" gives k, in
\* order, and whether the loop never ends (k comes back to a value it had)
RECURSIVE ForLoop(_, _, _, _)
ForLoop(k, hi, stride, seen) ==
    IF ~(k <= hi) THEN [vals |-> seen, diverges |-> FALSE]
    ELSE IF \E n \in 1..Len(seen) : seen[n] = k
         THEN [vals |-> seen, diverges |-> TRUE]
    ELSE ForLoop(ToInt(k + stride), hi, stride, Append(seen, k))

\* DimLoop with the stride of one block instead of the whole grid
DimLoop_BlockStride(d, blockIdx, threadIdx) ==
    ForLoop(ToInt(klo[d] + blockIdx[d] * blockDim[d] + threadIdx[d]),
            khi[d],
            blockDim[d] % TwoToW,
            <<>>)

\* the loop of dimension d (1 = x, lines 50-54; 2 = y, lines 47-55;
\* 3 = z, lines 44-56) for the thread threadIdx of block blockIdx
DimLoop(d, blockIdx, threadIdx) ==
    ForLoop(ToInt(klo[d] + blockIdx[d] * blockDim[d] + threadIdx[d]),
            khi[d],
            (blockDim[d] * gridDim[d]) % TwoToW,
            <<>>)

\* lines 45-46, 48-49, 51-53: the arguments blo and bhi of the invocation in
\* the iteration i, j, k
Invocation(i, j, k) == [blo |-> <<i, j, k>>, bhi |-> <<i, j, k>>]

\* what one thread does: the invocations it makes once, those it makes again
\* and again, and whether it ever returns.  The three loops' bounds do not
\* depend on each other, so a loop that never ends is stuck in the first
\* iteration of the loops around it.
ThreadRun(t) ==
    LET K == DimLoop(3, t.blockIdx, t.threadIdx)
        J == DimLoop(2, t.blockIdx, t.threadIdx)
        I == DimLoop(1, t.blockIdx, t.threadIdx)
        ks == {K.vals[n] : n \in 1..Len(K.vals)}
        js == {J.vals[n] : n \in 1..Len(J.vals)}
        is == {I.vals[n] : n \in 1..Len(I.vals)}
        all == {Invocation(i, j, k) : i \in is, j \in js, k \in ks}
        reached == ks # {} /\ js # {}
    IN  IF ks = {} THEN [once |-> {}, again |-> {}, diverges |-> FALSE]
        ELSE IF reached /\ I.diverges
             THEN [once |-> {},
                   again |-> {Invocation(i, J.vals[1], K.vals[1]) : i \in is},
                   diverges |-> TRUE]
        ELSE IF J.diverges
             THEN [once |-> {},
                   again |-> {Invocation(i, j, K.vals[1]) : i \in is, j \in js},
                   diverges |-> TRUE]
        ELSE IF K.diverges
             THEN [once |-> {}, again |-> all, diverges |-> TRUE]
        ELSE [once |-> all, again |-> {}, diverges |-> FALSE]

\* the threads of the launch
Threads ==
    {[blockIdx |-> b, threadIdx |-> t] :
        b \in {x \in [1..3 -> 0..MaxThreads] : \A d \in 1..3 : x[d] < gridDim[d]},
        t \in {x \in [1..3 -> 0..MaxThreads] : \A d \in 1..3 : x[d] < blockDim[d]}}

\* the launch shapes: at least 1 in every dimension, at most MaxThreads
\* threads in all
Dim3s == {x \in [1..3 -> 1..MaxThreads] : x[1] * x[2] * x[3] <= MaxThreads}

\* the bounds lo[d] and hi[d] of the enumerated boxes
LoVals == {0 - 1, MaxInt}
HiVals == {0 - 2, 1, MaxInt}

\* the boxes: at most one dimension reaches the largest int
InitKernel ==
    /\ klo \in [1..3 -> LoVals]
    /\ khi \in [1..3 -> HiVals]
    /\ Cardinality({d \in 1..3 : klo[d] = MaxInt \/ khi[d] = MaxInt}) <= 1
    /\ blockDim \in Dim3s
    /\ gridDim \in Dim3s
    /\ blockDim[1] * blockDim[2] * blockDim[3] *
       gridDim[1] * gridDim[2] * gridDim[3] <= MaxThreads
    /\ kran = {} /\ kdiv = {} /\ kcalls = <<>>
    /\ RewriteIdle
    /\ PipelineIdle

\* kcalls with the invocations of one thread added
AddCalls(calls, r) ==
    LET old(c) == IF c \in DOMAIN calls THEN calls[c] ELSE 0
        add(c) == (IF c \in r.once THEN 1 ELSE 0) + (IF c \in r.again THEN Many ELSE 0)
        sum(c) == IF old(c) + add(c) > Many THEN Many ELSE old(c) + add(c)
    IN  [c \in (DOMAIN calls) \cup r.once \cup r.again |-> sum(c)]

\* one thread runs the kernel body
KernelThread(t) ==
    /\ t \notin kran
    /\ kran' = kran \cup {t}
    /\ LET r == ThreadRun(t)
       IN  /\ kdiv' = IF r.diverges THEN kdiv \cup {t} ELSE kdiv
           /\ kcalls' = AddCalls(kcalls, r)
    /\ UNCHANGED <<klo, khi, blockDim, gridDim, rwVars, pVars>>

NextKernel == \E t \in Threads : KernelThread(t)

SpecKernel == InitKernel /\ [][NextKernel]_vars

\* ------------------------------------------------------------------------
\* Properties of the kernel (SpecKernel)
\* ------------------------------------------------------------------------

\* every thread of the launch has run
KAllRan == kran = Threads

\* the index triples of the box lo..hi, and one invocation for each of them
KBox == {<<i, j, k>> : i \in klo[1]..khi[1], j \in klo[2]..khi[2], k \in klo[3]..khi[3]}
KExpected == [c \in {[blo |-> p, bhi |-> p] : p \in KBox} |-> 1]

\* the index arithmetic of no thread wraps around: in every dimension
\* lo + (number of threads) - 1 and hi + (number of threads) are ints
KNoWrap ==
    \A d \in 1..3 :
        /\ khi[d] + blockDim[d] * gridDim[d] <= MaxInt
        /\ klo[d] + blockDim[d] * gridDim[d] - 1 <= MaxInt

\* C5 as stated: for every lo, hi and launch shape, once all threads have run
\* the device function has been invoked exactly once for every index triple
\* of the box, with blo = bhi = the triple, and for nothing else.
C5_CoverageEveryBox ==
    KAllRan => kcalls = KExpected

\* C5, amended: the same for the boxes and launch shapes whose index
\* arithmetic does not wrap around; and while threads are still running,
\* nothing outside the box and nothing twice.
C5_CoverageNoWrap ==
    KNoWrap =>
        /\ kdiv = {}
        /\ \A c \in DOMAIN kcalls : c \in DOMAIN KExpected /\ kcalls[c] = 1
        /\ KAllRan => kcalls = KExpected

\* a launch of 2 blocks of 2 threads in x has covered the box -1..1 cubed
C5_Witness ==
    /\ KAllRan
    /\ KNoWrap
    /\ blockDim = <<2, 1, 1>> /\ gridDim = <<2, 1, 1>>
    /\ klo = <<0 - 1, 0 - 1, 0 - 1>> /\ khi = <<1, 1, 1>>
    /\ kcalls = KExpected
    /\ Cardinality(DOMAIN kcalls) = 27

\* ------------------------------------------------------------------------
\* Properties of the rewriting of one signature (SpecRewrite)
\* ------------------------------------------------------------------------

\* the declared parameters of the signature being rewritten, and their names
\* with the sigils stripped (<<>> for a parameter without any token)
RwParams == Params(rw.launch_sig)
NameOfParam(v) ==
    LET t == SplitWs(v) IN IF t = <<>> THEN <<>> ELSE StripSigils(t[Len(t)])
RwNamed(nm) == {i \in 1..Len(RwParams) : NameOfParam(RwParams[i]) = nm}
RwTagged(i) == \E j \in 1..Len(rw.arg_positions) : rw.arg_positions[j] = i - 1
RwEnded == rw.status \in {"done", "crash"}
\* no two parameters of one name, and every tagged position is a parameter's
RwWellFormed ==
    /\ \A i, j \in 1..Len(RwParams) :
          i # j => NameOfParam(RwParams[i]) # NameOfParam(RwParams[j])
    /\ \A j \in 1..Len(rw.arg_positions) : rw.arg_positions[j] < Len(RwParams)
RwAborted == rw.status = "crash" \/ rw_out.status = "exit"

\* the parameters of the kernel declaration that was written, trimmed
KernelParams ==
    LET ps == Split(decls_re(rw_out.kernel_decl).g3, ",")
    IN  [i \in 1..Len(ps) |-> Strip(ps[i])]

\* the forwarding arguments of the call in the kernel body, trimmed
CallArgs ==
    LET ps == Split(decls_re(rw_out.new_call).g3, ",")
    IN  [i \in 1..Len(ps) |-> Strip(ps[i])]

\* the number of occurrences of sub in s
RECURSIVE CountFrom(_, _, _)
CountFrom(s, sub, from) ==
    LET i == FindFrom(s, sub, from)
    IN  IF i = 0 THEN 0 ELSE 1 + CountFrom(s, sub, i + Len(sub))
Count(s, sub) == CountFrom(s, sub, 1)

\* C2: the rewriting of a signature aborts if and only if the signature has no
\* parameter named lo or no parameter named hi (sigils stripped); a signature
\* with both is rewritten, whatever the tagged positions.  (An abort is read
\* here as either sys.exit or an uncaught exception.)
C2_AbortIffBoundMissing ==
    RwEnded =>
        (RwAborted <=> (RwNamed(S_lo) = {} \/ RwNamed(S_hi) = {}))

\* the three scalars and the one parameter a position may show in the kernel
ScalarPieces(v) ==
    <<S_const_int \o v \o S_u1, S_const_int \o v \o S_u2, S_const_int \o v \o S_u3>>

\* the kernel parameter lists C3 allows from parameter i on: a tagged
\* parameter is its three scalars, a bound parameter that is not tagged is
\* either itself or its three scalars, any other parameter is itself
RECURSIVE C3_Allowed(_)
C3_Allowed(i) ==
    IF i > Len(RwParams) THEN {<<>>}
    ELSE LET v == NameOfParam(RwParams[i])
             own == IF RwTagged(i) THEN {ScalarPieces(v)}
                    ELSE IF v \in {S_lo, S_hi}
                         THEN {<<Strip(RwParams[i])>>, ScalarPieces(v)}
                    ELSE {<<Strip(RwParams[i])>>}
         IN  {a \o b : a \in own, b \in C3_Allowed(i + 1)}

\* C3: when a position k below the number of parameters is tagged (in a
\* signature whose parameter names differ), the kernel
\* declaration shows exactly three scalars const int v_1, v_2, v_3 in place of
\* parameter k, and every parameter that is neither tagged nor a bound keeps
\* its place and its text.
C3_PositionConsistency ==
    (/\ rw.status = "done"
     /\ rw_out.status = "ok"
     /\ RwWellFormed
     /\ \E i \in 1..Len(RwParams) : RwTagged(i))
    => KernelParams \in C3_Allowed(1)

\* the signature with _device after the first occurrence of the name only
C6_ExpectedDeviceSig ==
    LET i == Find(Lower(rw.launch_sig), rw.name)
        e == i + Len(rw.name) - 1
    IN  S_device_qual \o SubSeq(rw.launch_sig, 1, e) \o S_device_suffix \o
        From(rw.launch_sig, e + 1) \o S_sig_end

\* C6: with no tagged position, the device declaration is the captured
\* signature qualified with __device__ and with _device after the function
\* name only; return type and parameters are unchanged, also when a parameter
\* contains the function name.
C6_DeviceDeclFrame ==
    (/\ rw.status = "done"
     /\ rw_out.status = "ok"
     /\ rw.arg_positions = <<>>)
    => rw_out.device_sig = C6_ExpectedDeviceSig

\* the precondition of C10: exactly one parameter "const int* lo" and exactly
\* one "const int* hi", no other parameter of these names, neither tagged
C10_Pre ==
    /\ RwEnded
    /\ RwWellFormed
    /\ Cardinality(RwNamed(S_lo)) = 1
    /\ Cardinality(RwNamed(S_hi)) = 1
    /\ \A i \in RwNamed(S_lo) : Strip(RwParams[i]) = P_lo /\ ~RwTagged(i)
    /\ \A i \in RwNamed(S_hi) : Strip(RwParams[i]) = P_hi /\ ~RwTagged(i)

\* C10: for a signature with const int* lo and const int* hi, and a tag table
\* that is empty or does not tag them, the kernel declaration has the three
\* scalars of lo and of hi instead of the pointers, the kernel body declares
\* int lo[3] and int hi[3] once each, and the call passes blo and bhi at the
\* positions of lo and hi.
C10_BoundSplitPerParameter ==
    C10_Pre =>
        /\ rw_out.status = "ok"
        /\ Contains(rw_out.kernel_decl, ThreeScalars(S_lo))
        /\ Contains(rw_out.kernel_decl, ThreeScalars(S_hi))
        /\ ~Contains(rw_out.kernel_decl, S_const_int_ptr_lo)
        /\ ~Contains(rw_out.kernel_decl, S_const_int_ptr_hi)
        /\ Count(rw_out.intvects, IntvectDecl(S_lo)) = 1
        /\ Count(rw_out.intvects, IntvectDecl(S_hi)) = 1
        /\ \A i \in RwNamed(S_lo) : CallArgs[i] = S_blo
        /\ \A i \in RwNamed(S_hi) : CallArgs[i] = S_bhi

\* ------------------------------------------------------------------------
\* Properties of the whole script (specification Spec)
\* ------------------------------------------------------------------------

\* the texts of the pieces of one kind written to a file, in order
RECURSIVE TextsOf(_, _)
TextsOf(chunks, kind) ==
    IF chunks = <<>> THEN <<>>
    ELSE (IF chunks[1].kind = kind THEN <<chunks[1].text>> ELSE <<>>)
         \o TextsOf(Tail(chunks), kind)

\* the pieces written to any file
AllChunks ==
    UNION {{outfiles[f].chunks[i] : i \in 1..Len(outfiles[f].chunks)} :
             f \in DOMAIN outfiles}

\* the name of a generated kernel, and the name a launch uses: the text up
\* to the opening parenthesis, "cuda_" included
KernelName(chunk) == SubSeq(chunk.text, 1, Find(chunk.text, S_lparen) - 1)
LaunchName(chunk) == chunk.text

\* what C1 has the pass over the original header write: a line that
\* declares a captured name starts a region, which ends with the first line
\* from there on that ends a statement; the lines outside regions are kept
RECURSIVE PassThrough(_, _, _, _)
PassThrough(lines, names, i, in_region) ==
    IF i > Len(lines) THEN <<>>
    ELSE IF in_region \/ HeaderFound(lines[i], names) # <<>>
         THEN PassThrough(lines, names, i + 1, ~EndsStatement(lines[i]))
         ELSE <<lines[i]>> \o PassThrough(lines, names, i + 1, FALSE)

\* C1: once the pass over the original header is over, the lines written to
\* the output header are the lines of the original header outside the
\* regions, unchanged and in order, a region being the lines from a matching
\* line through the first line, itself included, that ends with ";"
C1_PassThroughFidelity ==
    pc = "h_emit" =>
        TextsOf(outfiles[Header.name].chunks, "line")
            = PassThrough(Header.orig, DOMAIN signatures, 1, FALSE)

\* a device/kernel pair for the name: the kernel calls <name>_device
KernelFor(chunk, name) ==
    /\ chunk.kind = "kernel"
    /\ StartsWith(Lower(chunk.call), Lower(name) \o S_device_suffix \o S_lparen)
DeviceFor(chunk, name) ==
    /\ chunk.kind = "device"
    /\ Contains(Lower(chunk.text), Lower(name) \o S_device_suffix)
Pairs(chunks, name) ==
    {i \in 1..Len(chunks) : KernelFor(chunks[i], name)}
Devices(chunks, name) ==
    {i \in 1..Len(chunks) : DeviceFor(chunks[i], name)}

\* the i-th header has just been written to its end (lines 399-407)
JustClosed(i) == pc = "h_open_cpp" /\ i = fi - 1

\* C4: an output header never holds more than one device/kernel pair for a
\* target name, and once it is written to its end it holds exactly one for
\* a name that was matched in the expanded and in the original header, and
\* none for any other
C4_Deduplication ==
    \A i \in 1..Len(header_files) :
        header_files[i].name \in DOMAIN outfiles =>
            \A F \in DOMAIN targets :
                LET chunks == outfiles[header_files[i].name].chunks
                    n == Cardinality(Pairs(chunks, F))
                IN  /\ n <= 1
                    /\ Cardinality(Devices(chunks, F)) = n
                    /\ JustClosed(i) =>
                          n = IF F \in DOMAIN signatures
                                 /\ F \in DOMAIN signatures_needed
                              THEN 1 ELSE 0

\* a header that declares foo twice, and whose includes declare it again,
\* is written to its end with one pair for foo
C4_Witness ==
    /\ JustClosed(1)
    /\ header_files[1] = H_dup
    /\ N_foo \in DOMAIN targets
    /\ Cardinality(Pairs(outfiles[H_dup.name].chunks, N_foo)) = 1

\* C7: the kernel a marked call launches and the kernel generated for the
\* declaration of that name, which matches it ignoring case, have the same
\* name, character for character
C7_KernelNameConsistency ==
    \A l \in AllChunks, k \in AllChunks :
        (l.kind = "launch" /\ k.kind = "kernel"
            /\ Lower(KernelName(k)) = Lower(LaunchName(l)))
        => KernelName(k) = LaunchName(l)

\* the name a line of the form "void <name>(" declares, "" for other lines
DeclaredName(l) ==
    IF StartsWith(Lower(l), S_void_sp) /\ Contains(l, S_lparen)
    THEN Strip(SubSeq(l, Len(S_void_sp) + 1, Find(l, S_lparen) - 1))
    ELSE <<>>

\* the line declares the name, ignoring case
Declares(l, name) == DeclaredName(l) # <<>> /\ Lower(DeclaredName(l)) = Lower(name)

\* C8: in the pass over the expanded header and in the pass over the
\* original header, a line that declares a pending target ignoring case is
\* captured, and a line is captured only for a target that it declares
\* ignoring case
C8_Step ==
    /\ (pc = "h_cpp_line" /\ line # <<>>) =>
          /\ (\E T \in DOMAIN targets : Declares(line, T)) => pc' = "h_cpp_acc"
          /\ pc' = "h_cpp_acc" => Declares(line, found')
    /\ (pc = "h_orig_line" /\ line # <<>>) =>
          /\ (\E T \in DOMAIN signatures : Declares(line, T)) => pc' = "h_orig_acc"
          /\ pc' = "h_orig_acc" => Declares(line, found')
C8_CaseInsensitiveMatching == [][C8_Step]_vars

\* the output header ends with the end of extern "C" and of the guards
HeaderComplete(f) ==
    /\ outfiles[f].chunks # <<>>
    /\ outfiles[f].chunks[Len(outfiles[f].chunks)].kind = "close"

\* C9: when the script aborts, every output header that exists is written to
\* its end, and no header after the offending one has an output
C9_NoPartialOutput ==
    pc = "exit" =>
        \A i \in 1..Len(header_files) :
            header_files[i].name \in DOMAIN outfiles =>
                HeaderComplete(header_files[i].name)

\* A loop that gathers a statement is about to repeat an iteration that
\* changes nothing: its condition holds, what it adds is empty and what it
\* reads is what it read before.  The script is sequential and its steps
\* are determined by the state, so from here the loop never finishes.
\* the call after a pragma, lines 113-115
FtSpins ==
    /\ pc = "ft_acc"
    /\ ~EndsStatement(line)
    /\ acc \o line = acc
    /\ ReadLine(CxxLines, pos) = line /\ NextPos(CxxLines, pos) = pos
\* the declaration in the preprocessed header, lines 199-201
HCppSpins ==
    /\ pc = "h_cpp_acc"
    /\ ~EndsStatement(line)
    /\ acc \o line = acc
    /\ ReadLine(Header.cpp, pos) = line /\ NextPos(Header.cpp, pos) = pos
\* the declaration in the original header, lines 262-266
HOrigSpins ==
    /\ pc = "h_orig_acc"
    /\ ~EndsStatement(ReadLine(Header.orig, pos))
    /\ acc \o ReadLine(Header.orig, pos) = acc
    /\ ReadLine(Header.orig, pos) = line /\ NextPos(Header.orig, pos) = pos
\* the call after a pragma in convert_cxx, lines 446-448
CxSpins ==
    /\ pc = "cx_acc"
    /\ ~EndsStatement(line)
    /\ acc \o line = acc
    /\ ReadLine(CxxLines, pos) = line /\ NextPos(CxxLines, pos) = pos

\* C11: each of the four loops that gather a statement finishes, so that
\* the scan of the file reaches its end and returns: none of them comes to
\* repeat an iteration that changes nothing while its condition holds
C11_ScansTerminate ==
    ~(FtSpins \/ HCppSpins \/ HOrigSpins \/ CxSpins)

=============================================================================
